---- MODULE Spec2Model ----
(***************************************************************************)
(* Entry-management layer of garbage_man (src/src/db.rs): the single       *)
(* `store` table, and insert_into_db / does_exist / delete_entry /         *)
(* delete_all / get_all run against it by one process at a time.           *)
(*                                                                         *)
(* A storage statement either executes or is rejected by the store         *)
(* (rusqlite::Error other than QueryReturnedNoRows); a rejected statement  *)
(* leaves the table untouched.  Which statements are rejected is an input  *)
(* of every operation.                                                     *)
(***************************************************************************)
EXTENDS Integers, Sequences, FiniteSets, TLC

\* ------------------------------------------------------------------ bounds
\* rows the store assigns an id to in one behaviour
MaxId == 2
\* readings of the local clock
MaxTime == 1

\* characters of a token handed to the list codec
MaxTokenLen == 2
\* tokens of a list handed to the list codec
MaxTokens == 2

\* ------------------------------------------------------------------ inputs
Paths == {"/a", "/b"}
Names == {"x", "y"}
Projects == {"p", "q"}
Languages == {"go", "text"}
\* a token is a sequence of characters, a preserve list a sequence of tokens
Preserves == { <<>>, << <<"a">>, <<"b">> >> }

\* EntryBuilder (db.rs 45-51): two candidates for each path, which differ in
\* every other field
EntryBuilder ==
    {eb \in [name : Names, path : Paths, project_name : Projects,
             language : Languages, preserve : Preserves] :
        \/ /\ eb.name = "x" /\ eb.project_name = "p"
           /\ eb.language = "go" /\ eb.preserve = <<>>
        \/ /\ eb.name = "y" /\ eb.project_name = "q"
           /\ eb.language = "text" /\ eb.preserve # <<>>}

\* which of the statements of one call the store rejects
Failures == [lookup : BOOLEAN, delete : BOOLEAN, insert : BOOLEAN, readback : BOOLEAN]

VARIABLES
    schema,    \* whether the table `store` exists in the database file
    store,     \* rows of the table `store`
    seq,       \* sqlite_sequence of the table: the largest id ever assigned
    clock,     \* the last reading of Local::now()
    written,   \* history: the ids insert statements assigned, in order
    last,      \* history: the last call, the statements it ran and its result
    procs,     \* two processes on one database file: where each is in its insert
    hist       \* history: what the statements of the two processes did to each other

vars == <<schema, store, seq, clock, written, last, procs, hist>>

\* ------------------------------------------------------------------ results
Ok(v) == [ok |-> TRUE, err |-> "none", val |-> v]
Err(e) == [ok |-> FALSE, err |-> e, val |-> <<>>]

QueryReturnedNoRows == "QueryReturnedNoRows"
SqliteFailure == "SqliteFailure"

\* ------------------------------------------------------------------ helpers
MaxOf(S) == CHOOSE m \in S : \A x \in S : x <= m
MinOf(S) == CHOOSE m \in S : \A x \in S : m <= x

Ids(st) == {r.id : r \in st}

\* Local::now().to_string() and chrono::DateTime::from_str
TimeToString(t) == <<"ts", t>>
TimeFromStr(s) ==
    IF Len(s) = 2 /\ s[1] = "ts" THEN [ok |-> TRUE, val |-> s[2]]
    ELSE [ok |-> FALSE, val |-> 0]

\* the encoding that joins the tokens with commas
RECURSIVE compress_vec_comma_join(_)
compress_vec_comma_join(v) ==
    IF v = <<>> THEN <<>>
    ELSE IF Len(v) = 1 THEN Head(v)
    ELSE Head(v) \o <<",">> \o compress_vec_comma_join(Tail(v))

\* compress_vec: fold push_str over the tokens, no separator
RECURSIVE compress_vec(_)
compress_vec(v) ==
    IF v = <<>> THEN <<>> ELSE Head(v) \o compress_vec(Tail(v))

\* decompress_to_vec: str::split(","), which yields one (empty) piece for a
\* text without a comma and an empty piece around every leading, trailing or
\* doubled comma
RECURSIVE decompress_to_vec(_)
decompress_to_vec(v) ==
    IF \A i \in DOMAIN v : v[i] # ","
    THEN <<v>>
    ELSE LET c == MinOf({i \in DOMAIN v : v[i] = ","})
         IN  <<SubSeq(v, 1, c - 1)>> \o decompress_to_vec(SubSeq(v, c + 1, Len(v)))

\* the closure with unwrap_or_default in place of unwrap_or(Local::now())
ReadRowNoFallback(r, now) ==
    LET parsed == TimeFromStr(r.created_at)
    IN  [id |-> r.id, name |-> r.name, path |-> r.path,
         project_name |-> r.project_name, language |-> r.language,
         preserve |-> r.preserve,
         created_at |-> parsed.val]

\* the closure of query_row / query_map: a row as an Entry
ReadRow(r, now) ==
    LET parsed == TimeFromStr(r.created_at)
    IN  [id |-> r.id, name |-> r.name, path |-> r.path,
         project_name |-> r.project_name, language |-> r.language,
         preserve |-> r.preserve,
         created_at |-> IF parsed.ok THEN parsed.val ELSE now]

\* WHERE path = ?
Matching(st, path) == {r \in st : r.path = path}

\* ------------------------------------------------------------------ statements
\* prep_db without if_not_exists(): CREATE TABLE fails on an existing table
prep_db_without_if_not_exists(exists, st, fails) ==
    IF fails \/ exists
    THEN [schema |-> exists, store |-> st, res |-> Err(SqliteFailure)]
    ELSE [schema |-> TRUE, store |-> {}, res |-> Ok(0)]

\* prep_db: CREATE TABLE IF NOT EXISTS, which creates the empty table when
\* the file has none and does nothing when it has one
prep_db(exists, st, fails) ==
    IF fails THEN [schema |-> exists, store |-> st, res |-> Err(SqliteFailure)]
    ELSE IF exists THEN [schema |-> TRUE, store |-> st, res |-> Ok(0)]
    ELSE [schema |-> TRUE, store |-> {}, res |-> Ok(0)]

\* does_exist without its WHERE clause: the first row of the table
does_exist_any_path(st, path, fails, now) ==
    IF fails THEN Err(SqliteFailure)
    ELSE IF st = {} THEN Err(QueryReturnedNoRows)
    ELSE LET r == CHOOSE x \in st : x.id = MinOf(Ids(st))
         IN  Ok(ReadRow(r, now))

\* does_exist: SELECT ... WHERE path = ? LIMIT 1 through query_row.  The
\* table has no index on path, so SQLite scans it in rowid order and the row
\* LIMIT 1 keeps is the matching row of least id.
does_exist(st, path, fails, now) ==
    IF fails THEN Err(SqliteFailure)
    ELSE IF Matching(st, path) = {} THEN Err(QueryReturnedNoRows)
    ELSE LET m == Matching(st, path)
             r == CHOOSE x \in m : x.id = MinOf(Ids(m))
         IN  Ok(ReadRow(r, now))

\* delete_entry without its WHERE clause: every row goes
delete_entry_all_rows(st, path, fails) ==
    IF fails THEN [store |-> st, res |-> Err(SqliteFailure)]
    ELSE [store |-> {}, res |-> Ok(Cardinality(st))]

\* delete_entry: DELETE ... WHERE path = ?, the count of rows removed
delete_entry(st, path, fails) ==
    IF fails THEN [store |-> st, res |-> Err(SqliteFailure)]
    ELSE [store |-> st \ Matching(st, path),
          res |-> Ok(Cardinality(Matching(st, path)))]

\* a rowid without AUTOINCREMENT: one more than the largest id now in the table
RowIdWithoutSequence(st, sq) == MaxOf(Ids(st) \cup {0}) + 1

\* id INTEGER NOT NULL PRIMARY KEY AUTOINCREMENT: one more than the largest
\* id the table ever held, which sqlite_sequence remembers across deletes
NextRowId(st, sq) == MaxOf(Ids(st) \cup {sq}) + 1

\* conn.execute(&query, []) of the INSERT built at lines 120-138
ExecInsert(st, sq, eb, time_now, fails) ==
    IF fails THEN [store |-> st, seq |-> sq, ok |-> FALSE, ids |-> <<>>]
    ELSE LET row == [id |-> NextRowId(st, sq),
                     name |-> eb.name,
                     path |-> eb.path,
                     project_name |-> eb.project_name,
                     language |-> eb.language,
                     preserve |-> compress_vec(eb.preserve),
                     created_at |-> TimeToString(time_now)]
         IN  [store |-> st \cup {row}, seq |-> row.id, ok |-> TRUE,
              ids |-> <<row.id>>]

\* the match without the early return: a failed delete is only reported
ReplaceStepNoAbort(st, eb, first, delFails) ==
    IF first.ok
    THEN LET d == delete_entry(st, eb.path, delFails)
         IN  [store |-> d.store, delExec |-> TRUE, delOk |-> d.res.ok,
              abort |-> FALSE]
    ELSE [store |-> st, delExec |-> FALSE, delOk |-> FALSE, abort |-> FALSE]

\* the match on the first does_exist (lines 140-151): an entry found is
\* deleted, and a failed delete returns early; QueryReturnedNoRows and every
\* other lookup error fall through to the insert
ReplaceStep(st, eb, first, delFails) ==
    IF first.ok
    THEN LET d == delete_entry(st, eb.path, delFails)
         IN  [store |-> d.store, delExec |-> TRUE, delOk |-> d.res.ok,
              abort |-> ~d.res.ok]
    ELSE [store |-> st, delExec |-> FALSE, delOk |-> FALSE, abort |-> FALSE]

\* insert_into_db: the table, the sequence, the result and what was executed
insert_into_db(st, sq, eb, time_now, f) ==
    LET first == does_exist(st, eb.path, f.lookup, time_now)
        rep   == ReplaceStep(st, eb, first, f.delete)
    IN  IF rep.abort
        THEN [store |-> rep.store, seq |-> sq, ids |-> <<>>,
              first |-> first, delExec |-> rep.delExec, delOk |-> rep.delOk,
              insExec |-> FALSE, insOk |-> FALSE,
              result |-> Err(QueryReturnedNoRows)]
        ELSE LET ins == ExecInsert(rep.store, sq, eb, time_now, f.insert)
             IN  [store |-> ins.store, seq |-> ins.seq, ids |-> ins.ids,
                  first |-> first, delExec |-> rep.delExec, delOk |-> rep.delOk,
                  insExec |-> TRUE, insOk |-> ins.ok,
                  result |-> does_exist(ins.store, eb.path, f.readback, time_now)]

\* ORDER BY id ASC
RECURSIVE OrderByIdAsc(_)
OrderByIdAsc(st) ==
    IF st = {} THEN <<>>
    ELSE LET r == CHOOSE x \in st : x.id = MinOf(Ids(st))
         IN  <<r>> \o OrderByIdAsc(st \ {r})

\* get_all: SELECT ... ORDER BY id DESC
RECURSIVE OrderByIdDesc(_)
OrderByIdDesc(st) ==
    IF st = {} THEN <<>>
    ELSE LET r == CHOOSE x \in st : x.id = MaxOf(Ids(st))
         IN  <<r>> \o OrderByIdDesc(st \ {r})

get_all(st, fails, now) ==
    IF fails THEN Err(SqliteFailure)
    ELSE LET rows == OrderByIdDesc(st)
         IN  Ok([i \in 1..Len(rows) |-> ReadRow(rows[i], now)])

\* delete_all: Table::truncate() rendered by SqliteQueryBuilder.  SQLite has
\* no TRUNCATE statement: sea-query's SQLite backend panics while rendering
\* it, and a rendered "TRUNCATE TABLE" is a syntax error for conn.execute.
\* Neither outcome removes a row.
DeleteAllOutcomes == {"panic", SqliteFailure}
delete_all(st, outcome) ==
    [store |-> st,
     res |-> IF outcome = "panic" THEN Err("panic") ELSE Err(SqliteFailure)]

\* ------------------------------------------------------------------ state machine
NoCall == [op |-> "none"]

\* the processes that may run the tool on the same database file
Procs == {1, 2}
Idle == [pc |-> "idle"]
NoHistory == [overlapped |-> FALSE, lost |-> FALSE]

Init ==
    /\ schema = FALSE
    /\ store = {}
    /\ seq = 0
    /\ clock = 0
    /\ written = <<>>
    /\ last = NoCall
    /\ procs = [p \in Procs |-> Idle]
    /\ hist = NoHistory

\* Local::now(): the clock never runs backwards
Now == {t \in {clock, clock + 1} : t <= MaxTime}

\* main.rs:87 runs prep_db before any other call on the connection
PrepDb ==
    \E fails \in BOOLEAN :
        LET o == prep_db(schema, store, fails)
        IN  /\ schema' = o.schema
            /\ store' = o.store
            /\ last' = [op |-> "prep_db", fails |-> fails, result |-> o.res]
            /\ UNCHANGED <<seq, clock, written, procs, hist>>

InsertIntoDb ==
    /\ schema
    /\ seq < MaxId
    /\ \E eb \in EntryBuilder, f \in Failures, time_now \in Now :
         LET o == insert_into_db(store, seq, eb, time_now, f)
         IN  /\ store' = o.store
             /\ seq' = o.seq
             /\ clock' = time_now
             /\ written' = written \o o.ids
             /\ UNCHANGED <<schema, procs, hist>>
             /\ last' = [op |-> "insert", eb |-> eb,
                         first |-> o.first, delExec |-> o.delExec,
                         delOk |-> o.delOk, insExec |-> o.insExec,
                         insOk |-> o.insOk, result |-> o.result]

DoesExist ==
    \E path \in Paths, fails \in BOOLEAN :
        /\ schema
        /\ last' = [op |-> "does_exist", path |-> path, fails |-> fails,
                    result |-> does_exist(store, path, fails, clock)]
        /\ UNCHANGED <<schema, store, seq, clock, written, procs, hist>>

DeleteEntry ==
    \E path \in Paths, fails \in BOOLEAN :
        LET d == delete_entry(store, path, fails)
        IN  /\ schema
            /\ store' = d.store
            /\ last' = [op |-> "delete_entry", path |-> path,
                        fails |-> fails, result |-> d.res]
            /\ UNCHANGED <<schema, seq, clock, written, procs, hist>>

DeleteAll ==
    \E outcome \in DeleteAllOutcomes :
        LET d == delete_all(store, outcome)
        IN  /\ schema
            /\ store' = d.store
            /\ last' = [op |-> "delete_all", result |-> d.res]
            /\ UNCHANGED <<schema, seq, clock, written, procs, hist>>

GetAll ==
    \E fails \in BOOLEAN :
        /\ schema
        /\ last' = [op |-> "get_all", fails |-> fails,
                    result |-> get_all(store, fails, clock)]
        /\ UNCHANGED <<schema, store, seq, clock, written, procs, hist>>

Next ==
    \/ PrepDb
    \/ InsertIntoDb
    \/ DoesExist
    \/ DeleteEntry
    \/ DeleteAll
    \/ GetAll

Spec == Init /\ [][Next]_vars

\* ------------------------------------------------------------------ list codec
\* the list codec on its own: a token list is encoded and the text decoded
Alphabet == {"a", "b", ","}
Tokens == UNION {[1..n -> Alphabet] : n \in 0..MaxTokenLen}
TokenLists == UNION {[1..n -> Tokens] : n \in 0..MaxTokens}

InitCodec ==
    /\ schema = FALSE
    /\ store = {}
    /\ seq = 0
    /\ clock = 0
    /\ written = <<>>
    /\ \E t \in TokenLists : last = [op |-> "tokens", tokens |-> t]
    /\ procs = [p \in Procs |-> Idle]
    /\ hist = NoHistory

CompressVec ==
    /\ last.op = "tokens"
    /\ last' = [op |-> "compress_vec", tokens |-> last.tokens,
                text |-> compress_vec(last.tokens)]
    /\ UNCHANGED <<schema, store, seq, clock, written, procs, hist>>

DecompressToVec ==
    /\ last.op = "compress_vec"
    /\ last' = [op |-> "decompress_to_vec", tokens |-> last.tokens,
                text |-> last.text, vec |-> decompress_to_vec(last.text)]
    /\ UNCHANGED <<schema, store, seq, clock, written, procs, hist>>

NextCodec ==
    \/ CompressVec
    \/ DecompressToVec

SpecCodec == InitCodec /\ [][NextCodec]_vars

\* ------------------------------------------------------------------ stored tables
\* the reads on a database file as the process finds it: rows written by
\* insert_into_db, and rows whose created_at text is not a timestamp (the
\* file is written by whatever touched it before this process)
Unparseable == <<"garbage">>

\* the columns of a stored row other than its id
StoredColumns ==
    [eb : EntryBuilder,
     created_at : {TimeToString(t) : t \in 0..MaxTime} \cup {Unparseable}]

StoredRow(i, c) ==
    [id |-> i, name |-> c.eb.name, path |-> c.eb.path,
     project_name |-> c.eb.project_name, language |-> c.eb.language,
     preserve |-> compress_vec(c.eb.preserve), created_at |-> c.created_at]

\* the tables of at most MaxId rows, ids distinct
StoredTables ==
    {{StoredRow(i, f[i]) : i \in ids} :
        f \in [1..MaxId -> StoredColumns], ids \in SUBSET (1..MaxId)}

InitStored ==
    /\ schema = TRUE
    /\ store \in StoredTables
    /\ seq = MaxOf(Ids(store) \cup {0})
    /\ clock \in 0..MaxTime
    /\ written = [i \in 1..seq |-> i]
    /\ last = NoCall
    /\ procs = [p \in Procs |-> Idle]
    /\ hist = NoHistory

NextStored ==
    \/ DoesExist
    \/ GetAll

SpecStored == InitStored /\ [][NextStored]_vars

\* ------------------------------------------------------------------ two processes
\* Two invocations of the tool run insert_into_db on one database file, one
\* call each; every storage statement is one step, and the statements of
\* the two calls interleave freely.  No statement is rejected.
InitRace ==
    /\ schema = TRUE
    /\ store \in {{}} \cup
           {{StoredRow(1, c)} : c \in {x \in StoredColumns : x.created_at = TimeToString(0)}}
    /\ seq = MaxOf(Ids(store) \cup {0})
    /\ clock = 0
    /\ written = [i \in 1..seq |-> i]
    /\ last = NoCall
    /\ procs = [p \in Procs |-> Idle]
    /\ hist = NoHistory

\* the other process is between the first and the last statement of its call
MidCall(p) == procs[p].pc \in {"delete", "insert", "readback"}
Overlap(p) == hist.overlapped \/ \E q \in Procs \ {p} : MidCall(q)

\* lines 118-140: the time is read, the query built and the lookup run
RaceLookup(p) ==
    /\ procs[p].pc = "idle"
    /\ \E eb \in EntryBuilder, time_now \in Now :
          LET first == does_exist(store, eb.path, FALSE, time_now)
          IN  /\ procs' = [procs EXCEPT ![p] =
                            [pc |-> IF first.ok THEN "delete" ELSE "insert",
                             eb |-> eb, time_now |-> time_now, first |-> first]]
              /\ clock' = time_now
    /\ hist' = [hist EXCEPT !.overlapped = Overlap(p)]
    /\ UNCHANGED <<schema, store, seq, written, last>>

\* line 142: the entry the lookup found is deleted by its path
RaceDelete(p) ==
    /\ procs[p].pc = "delete"
    /\ LET d == delete_entry(store, procs[p].eb.path, FALSE)
       IN  /\ store' = d.store
           /\ hist' = [overlapped |-> Overlap(p),
                       lost |-> \/ hist.lost
                                \/ \E r \in store \ d.store :
                                       r.id # procs[p].first.val.id]
    /\ procs' = [procs EXCEPT ![p].pc = "insert"]
    /\ UNCHANGED <<schema, seq, clock, written, last>>

\* line 153: the INSERT
RaceInsert(p) ==
    /\ procs[p].pc = "insert"
    /\ LET ins == ExecInsert(store, seq, procs[p].eb, procs[p].time_now, FALSE)
       IN  /\ store' = ins.store
           /\ seq' = ins.seq
           /\ written' = written \o ins.ids
    /\ procs' = [procs EXCEPT ![p].pc = "readback"]
    /\ hist' = [hist EXCEPT !.overlapped = Overlap(p)]
    /\ UNCHANGED <<schema, clock, last>>

\* line 155: the read-back, whose result the call returns
RaceReadback(p) ==
    /\ procs[p].pc = "readback"
    /\ procs' = [procs EXCEPT ![p] =
                    [pc |-> "done", eb |-> procs[p].eb,
                     time_now |-> procs[p].time_now, first |-> procs[p].first,
                     result |-> does_exist(store, procs[p].eb.path, FALSE,
                                           procs[p].time_now)]]
    /\ hist' = [hist EXCEPT !.overlapped = Overlap(p)]
    /\ UNCHANGED <<schema, store, seq, clock, written, last>>

NextRace ==
    \E p \in Procs :
        \/ RaceLookup(p)
        \/ RaceDelete(p)
        \/ RaceInsert(p)
        \/ RaceReadback(p)

SpecRace == InitRace /\ [][NextRace]_vars

\* ------------------------------------------------------------------ commands
\* main.rs: one invocation of the tool.  The targets are the canonical paths
\* (lines 46-56), which exist; name is the last segment of a path.
COMMANDS == {"add", "clean", "list", "show", "delete"}
Commands == COMMANDS \cup {"purge"}

FileName(path) == IF path = "/a" THEN "a" ELSE "b"

\* the target lists of a command line: one path, or two
Targets == {<<"/a">>, <<"/b">>, <<"/a", "/b">>}

\* --project, --lang and --preserve, all absent or all given
Options ==
    {[project |-> <<>>, lang |-> <<>>, preserve |-> <<>>],
     [project |-> <<"q">>, lang |-> <<"go">>, preserve |-> << <<"a", ",", "b">> >>]}

\* a command line; the options are read by the add arm only
Args ==
    {a \in [cmd : Commands, targets : Targets, opts : Options] :
        a.cmd # "add" => a.opts.project = <<>>}

\* the storage failure of one invocation: none, or the statements of one kind
Faults == {"none", "prep_db", "lookup", "delete", "insert", "readback"}
\* the statements a command runs are the only ones that can fail in it
FaultsOf(cmd) ==
    IF cmd = "add" THEN Faults
    ELSE IF cmd = "delete" THEN {"none", "prep_db", "lookup", "delete"}
    ELSE IF cmd \in COMMANDS THEN {"none", "prep_db"}
    ELSE {"none"}
MainFailures(fault) ==
    [lookup |-> fault = "lookup", delete |-> fault = "delete",
     insert |-> fault = "insert", readback |-> fault = "readback"]

\* lines 75-82 and 92-98: the EntryBuilder of one target
MainEntry(path, args) ==
    [name |-> FileName(path),
     path |-> path,
     project_name |-> IF args.opts.project = <<>>
                      THEN FileName(args.targets[1])
                      ELSE args.opts.project[1],
     language |-> IF args.opts.lang = <<>> THEN "text" ELSE args.opts.lang[1],
     preserve |-> IF args.opts.preserve = <<>> THEN <<>>
                  ELSE decompress_to_vec(args.opts.preserve[1])]

\* the match with the show arm running the delete arm
CommandArmShowDeletes(cmd) ==
    IF cmd = "show" THEN "delete"
    ELSE IF cmd \in {"add", "list", "delete"} THEN cmd ELSE "todo"

\* the match of lines 89-161: the arm a command runs; every command without
\* an arm of its own reaches `_ => todo!()`
CommandArm(cmd) ==
    IF cmd \in {"add", "show", "list", "delete"} THEN cmd ELSE "todo"

\* lines 90-109: insert_into_db for each target, in order
RECURSIVE AddEach(_, _, _, _, _, _)
AddEach(st, sq, todo, args, f, now) ==
    IF todo = <<>>
    THEN [store |-> st, seq |-> sq, ids |-> <<>>, calls |-> <<>>]
    ELSE LET o == insert_into_db(st, sq, MainEntry(Head(todo), args), now, f)
             rest == AddEach(o.store, o.seq, Tail(todo), args, f, now)
         IN  [store |-> rest.store, seq |-> rest.seq, ids |-> o.ids \o rest.ids,
              calls |-> <<"insert_into_db">> \o rest.calls]

\* lines 144-156: for each target, delete_entry when does_exist finds it
RECURSIVE DeleteEach(_, _, _, _)
DeleteEach(st, todo, f, now) ==
    IF todo = <<>>
    THEN [store |-> st, calls |-> <<>>]
    ELSE LET e == does_exist(st, Head(todo), f.lookup, now)
             d == delete_entry(st, Head(todo), f.delete)
             rest == DeleteEach(IF e.ok THEN d.store ELSE st, Tail(todo), f, now)
         IN  [store |-> rest.store,
              calls |-> (IF e.ok THEN <<"does_exist", "delete_entry">>
                         ELSE <<"does_exist">>) \o rest.calls]

\* main: the database after the invocation, the db calls it made in order,
\* and whether it ran to its end (no panic)
main(sch, st, sq, args, prepFails, f, now) ==
    IF args.cmd \notin COMMANDS
    THEN [schema |-> sch, store |-> st, seq |-> sq, ids |-> <<>>,
          calls |-> <<>>, completed |-> TRUE]
    ELSE LET pr == prep_db(sch, st, prepFails)
             arm == CommandArm(args.cmd)
         IN  IF ~pr.res.ok
             THEN [schema |-> pr.schema, store |-> pr.store, seq |-> sq,
                   ids |-> <<>>, calls |-> <<"prep_db">>, completed |-> FALSE]
             ELSE IF arm = "add"
             THEN LET a == AddEach(pr.store, sq, args.targets, args, f, now)
                  IN  [schema |-> pr.schema, store |-> a.store, seq |-> a.seq,
                       ids |-> a.ids, calls |-> <<"prep_db">> \o a.calls,
                       completed |-> TRUE]
             ELSE IF arm = "show"
             THEN [schema |-> pr.schema, store |-> pr.store, seq |-> sq,
                   ids |-> <<>>,
                   calls |-> <<"prep_db",
                               IF Len(args.targets) > 1 THEN "get_all"
                               ELSE "does_exist">>,
                   completed |-> TRUE]
             ELSE IF arm = "list"
             THEN [schema |-> pr.schema, store |-> pr.store, seq |-> sq,
                   ids |-> <<>>, calls |-> <<"prep_db", "get_all">>,
                   completed |-> TRUE]
             ELSE IF arm = "delete"
             THEN LET x == DeleteEach(pr.store, args.targets, f, now)
                  IN  [schema |-> pr.schema, store |-> x.store, seq |-> sq,
                       ids |-> <<>>, calls |-> <<"prep_db">> \o x.calls,
                       completed |-> TRUE]
             ELSE [schema |-> pr.schema, store |-> pr.store, seq |-> sq,
                   ids |-> <<>>, calls |-> <<"prep_db">>, completed |-> FALSE]

\* the inserts of one command read the clock within one tick; no other
\* command stores a time
Main ==
    \E args \in Args :
    \E fault \in FaultsOf(args.cmd), now \in IF args.cmd = "add" THEN Now ELSE {clock} :
        LET prepFails == fault = "prep_db"
            o == main(schema, store, seq, args, prepFails,
                      MainFailures(fault), now)
        IN  /\ args.cmd = "add" => seq + Len(args.targets) <= MaxId
            /\ schema' = o.schema
            /\ store' = o.store
            /\ seq' = o.seq
            /\ clock' = now
            /\ written' = written \o o.ids
            /\ last' = [op |-> "main", cmd |-> args.cmd, targets |-> args.targets,
                        prepFails |-> prepFails, calls |-> o.calls,
                        completed |-> o.completed]
            /\ UNCHANGED <<procs, hist>>

NextMain ==
    \/ Main
    \/ DoesExist
    \/ GetAll

SpecMain == Init /\ [][NextMain]_vars

\* the calls in which the store rejects no statement
NoRejection ==
    /\ last'.op = "insert" =>
           /\ last'.first.err # SqliteFailure
           /\ last'.delExec => last'.delOk
           /\ last'.insExec => last'.insOk
           /\ last'.result.err # SqliteFailure
    /\ last'.op \in {"prep_db", "does_exist", "delete_entry", "get_all"} =>
           ~last'.fails

NextNoFail ==
    \/ PrepDb /\ NoRejection
    \/ InsertIntoDb /\ NoRejection
    \/ DoesExist /\ NoRejection
    \/ DeleteEntry /\ NoRejection
    \/ DeleteAll
    \/ GetAll /\ NoRejection

SpecNoFail == Init /\ [][NextNoFail]_vars

\* ------------------------------------------------------------------ claims
SameFields(e, eb) ==
    /\ e.name = eb.name
    /\ e.path = eb.path
    /\ e.project_name = eb.project_name
    /\ e.language = eb.language

InsertReturned == last.op = "insert"
InsertSucceeded == last.op = "insert" /\ last.result.ok
DeleteStepFailed == last.op = "insert" /\ last.delExec /\ ~last.delOk
InsertStatementFailed == last.op = "insert" /\ last.insExec /\ ~last.insOk

\* C1: the store holds at most one record per path in every state, and
\* exactly one record for the candidate's path after an insert that returned
\* success, also when storage statements fail.
C1_OneRecordPerPath ==
    /\ \A p \in Paths : Cardinality(Matching(store, p)) <= 1
    /\ InsertSucceeded => Cardinality(Matching(store, last.eb.path)) = 1

\* C2: after an insert that returned success, find_by_path on the candidate's
\* path returns a record with the candidate's name, path, project_name and
\* language.
C2_LastInsertWins ==
    InsertSucceeded =>
        LET found == does_exist(store, last.eb.path, FALSE, clock)
        IN  found.ok /\ SameFields(found.val, last.eb)

\* C3: the ids insert statements assign are strictly increasing over the
\* whole run, deleted and replaced records included: every stored id was
\* assigned once, and a replace yields an id greater than the replaced one.
C3_IdMonotonic ==
    /\ \A i, j \in DOMAIN written : i < j => written[i] < written[j]
    /\ Ids(store) \subseteq {written[i] : i \in DOMAIN written}
    /\ \A r, q \in store : r.id = q.id => r = q
    /\ (InsertReturned /\ last.first.ok /\ last.insOk) =>
           written[Len(written)] > last.first.val.id

\* C3 witness: a replace wrote a second id after the first record was deleted
C3_Witness ==
    /\ InsertReturned /\ last.first.ok /\ last.delOk /\ last.insOk
    /\ Len(written) = 2
    /\ Cardinality(store) = 1

\* C4: when the delete before the insert fails, insert returns an error, runs
\* no insert statement and leaves the table as it was, the prior record for
\* the path still there with the id and fields the lookup read.
C4_ReplaceAbort ==
    [][(last'.op = "insert" /\ last'.first.ok /\ last'.delExec /\ ~last'.delOk)
        => /\ ~last'.result.ok
           /\ ~last'.insExec
           /\ store' = store
           /\ seq' = seq
           /\ written' = written
           /\ \E r \in store' :
                 /\ r.path = last'.eb.path
                 /\ r.id = last'.first.val.id
                 /\ SameFields(r, last'.first.val)
                 /\ r.preserve = last'.first.val.preserve]_vars

\* C4 witness: an insert on a present path whose delete was rejected
C4_Witness ==
    /\ DeleteStepFailed /\ last.first.ok
    /\ Matching(store, last.eb.path) # {}

\* C5: a path present before insert is called is still present when insert
\* returns, whichever statement failed.
C5_AtomicReplace ==
    [][(last'.op = "insert" /\ Matching(store, last'.eb.path) # {})
        => Matching(store', last'.eb.path) # {}]_vars

\* C6: whenever the lookup, the delete or the insert statement of an insert
\* fails with a failure other than not-found, insert returns an error.
C6_NoSwallowedError ==
    (InsertReturned /\ (\/ last.first.err = SqliteFailure
                        \/ DeleteStepFailed
                        \/ InsertStatementFailed))
        => ~last.result.ok

\* C7: the error insert returns when the delete before the insert fails
\* differs from the error it returns when the insert statement fails.
C7_ReplaceConflictDistinct ==
    DeleteStepFailed =>
        \A eb \in EntryBuilder, f \in Failures :
            LET o == insert_into_db(store, seq, eb, clock, f)
            IN  (o.insExec /\ ~o.insOk /\ ~o.result.ok)
                    => o.result.err # last.result.err

\* C8: an insert that returns success returns the row its own insert
\* statement wrote (the candidate's fields, the id assigned in this call); an
\* insert whose insert statement fails returns the not-found error, never a
\* record (a read-back the store rejects returns that failure).
C8_ReturnsFreshRow ==
    /\ InsertSucceeded =>
           /\ last.insOk
           /\ last.result.val.id = written[Len(written)]
           /\ SameFields(last.result.val, last.eb)
    /\ InsertStatementFailed =>
           \/ last.result.err = QueryReturnedNoRows
           \/ last.result.err = SqliteFailure

\* C9: delete_all returns a row count, and list_all after it is empty.
C9_BulkClear ==
    last.op = "delete_all" =>
        /\ last.result.ok
        /\ get_all(store, FALSE, clock) = Ok(<<>>)

\* C10: a lookup the store answers returns the not-found error when no record
\* has the path, and otherwise a record of the table with that path, the
\* record when there is one.
C10_NotFoundSignalling ==
    (last.op = "does_exist" /\ ~last.fails) =>
        IF Matching(store, last.path) = {}
        THEN last.result = Err(QueryReturnedNoRows)
        ELSE /\ last.result.ok
             /\ last.result.val.path = last.path
             /\ \E r \in Matching(store, last.path) :
                    last.result.val = ReadRow(r, clock)
             /\ \A r \in store \ Matching(store, last.path) :
                    last.result.val.id # r.id

\* C10 witness: not-found for a path while the table holds another path
C10_Witness ==
    /\ last.op = "does_exist" /\ ~last.fails
    /\ last.result.err = QueryReturnedNoRows
    /\ store # {}

\* C11: a delete_by_path the store answers returns the number of records
\* that had the path before the call, which is 0 or 1 (1 for a present
\* path), and a second call on the same path returns 0.
C11_DeleteIdempotent ==
    [][(last'.op = "delete_entry" /\ ~last'.fails)
        => /\ last'.result.ok
           /\ last'.result.val \in {0, 1}
           /\ last'.result.val = Cardinality(Matching(store, last'.path))
           /\ delete_entry(store', last'.path, FALSE).res = Ok(0)]_vars

\* C13: insert and delete_by_path leave every record of another path in the
\* table, with the id and every field it had.
C13_FrameOfPathKeyedWrites ==
    [][/\ last'.op = "insert" =>
              \A r \in store : r.path # last'.eb.path => r \in store'
       /\ last'.op = "delete_entry" =>
              \A r \in store : r.path # last'.path => r \in store']_vars

\* C13 witness: a delete removed the record of one path and the table still
\* holds a record of the other path
C13_Witness ==
    /\ last.op = "delete_entry" /\ last.result.ok /\ last.result.val = 1
    /\ \E r \in store : r.path # last.path

\* C14: a list_all the store answers returns every record of the table once,
\* ids strictly descending, and the empty sequence for the empty table.
C14_ListAllDescending ==
    (last.op = "get_all" /\ ~last.fails) =>
        /\ last.result.ok
        /\ Len(last.result.val) = Cardinality(store)
        /\ {last.result.val[i] : i \in DOMAIN last.result.val}
               = {ReadRow(r, clock) : r \in store}
        /\ \A i, j \in DOMAIN last.result.val :
               i < j => last.result.val[i].id > last.result.val[j].id
        /\ store = {} => last.result.val = <<>>

\* C14 witness: list_all returned two records
C14_Witness ==
    /\ last.op = "get_all" /\ ~last.fails
    /\ Len(last.result.val) = 2

\* C12: without storage failures the table is a map from path to record:
\* insert(c) leaves exactly one record for c.path, with c's fields,
\* delete_by_path(p) leaves none for p, delete_all leaves none at all, and
\* find_by_path(p) returns a record exactly when the map holds p.
C12_PerPathStateMachine ==
    [][/\ \A p \in Paths : Cardinality(Matching(store', p)) <= 1
       /\ \A p \in Paths :
              does_exist(store', p, FALSE, clock').ok <=> Matching(store', p) # {}
       /\ last'.op = "insert" =>
              /\ \E r \in store' : Matching(store', last'.eb.path) = {r}
                                   /\ SameFields(r, last'.eb)
              /\ \A p \in Paths \ {last'.eb.path} :
                     Matching(store', p) = Matching(store, p)
       /\ last'.op = "delete_entry" =>
              /\ Matching(store', last'.path) = {}
              /\ \A p \in Paths \ {last'.path} :
                     Matching(store', p) = Matching(store, p)
       /\ last'.op = "delete_all" => store' = {}
       /\ last'.op \in {"does_exist", "get_all"} => store' = store]_vars

\* the characters of the first k pieces of v
RECURSIVE LenOfFirst(_, _)
LenOfFirst(v, k) == IF k = 0 THEN 0 ELSE LenOfFirst(v, k - 1) + Len(v[k])

NoComma(tok) == \A i \in DOMAIN tok : tok[i] # ","

\* C16: the encoded text is the characters of the tokens in order with
\* nothing between them; the decoded pieces are the stretches of the text
\* between its commas; so decoding the encoding of two or more comma-free
\* tokens never gives the tokens back.
C16_ListCodec ==
    last.op = "decompress_to_vec" =>
        LET t == last.tokens
            x == last.text
            v == last.vec
        IN  /\ Len(x) = LenOfFirst(t, Len(t))
            /\ \A k \in DOMAIN t : \A i \in DOMAIN t[k] :
                   x[LenOfFirst(t, k - 1) + i] = t[k][i]
            /\ Len(v) = Cardinality({i \in DOMAIN x : x[i] = ","}) + 1
            /\ \A k \in DOMAIN v : NoComma(v[k])
            /\ Len(x) = LenOfFirst(v, Len(v)) + Len(v) - 1
            /\ \A k \in DOMAIN v : \A i \in DOMAIN v[k] :
                   x[LenOfFirst(v, k - 1) + (k - 1) + i] = v[k][i]
            /\ (Len(t) >= 2 /\ \A k \in DOMAIN t : NoComma(t[k])) => v # t

\* C16 witness: ["a","b"] is stored as "ab", which decodes to ["ab"]
C16_Witness ==
    /\ last.op = "decompress_to_vec"
    /\ last.tokens = << <<"a">>, <<"b">> >>
    /\ last.text = <<"a", "b">>
    /\ last.vec = << <<"a", "b">> >>

\* C17: prep_db on a database that already has the table does not fail and
\* leaves every row and the id sequence as they were, so find_by_path and
\* list_all give after it what they gave before it.
C17_SchemaIdempotent ==
    [][(last'.op = "prep_db" /\ ~last'.fails /\ schema)
        => /\ last'.result.ok
           /\ schema'
           /\ store' = store
           /\ seq' = seq
           /\ \A p \in Paths : does_exist(store', p, FALSE, clock')
                                   = does_exist(store, p, FALSE, clock)
           /\ get_all(store', FALSE, clock') = get_all(store, FALSE, clock)]_vars

\* C17 witness: prep_db ran again on a table that holds a record
C17_Witness ==
    /\ last.op = "prep_db" /\ last.result.ok
    /\ schema
    /\ store # {}

\* the Entry a read returns for the stored row r: every column as stored, and
\* for created_at the stored timestamp when the text is one, the current
\* local time when it is not
ReturnedFor(r, e, now) ==
    /\ e.id = r.id
    /\ SameFields(e, r)
    /\ e.preserve = r.preserve
    /\ \A t \in 0..MaxTime : r.created_at = TimeToString(t) => e.created_at = t
    /\ (\A t \in 0..MaxTime : r.created_at # TimeToString(t)) => e.created_at = now

\* C18: a find_by_path or list_all the store answers succeeds whatever the
\* stored created_at texts are, and returns every record it covers with its
\* stored columns and the stored timestamp, or the current local time where
\* the text does not parse.
C18_TimestampFallback ==
    /\ (last.op = "does_exist" /\ ~last.fails /\ Matching(store, last.path) # {})
          => /\ last.result.ok
             /\ \E r \in Matching(store, last.path) :
                    ReturnedFor(r, last.result.val, clock)
    /\ (last.op = "get_all" /\ ~last.fails)
          => /\ last.result.ok
             /\ Len(last.result.val) = Cardinality(store)
             /\ \A r \in store : \E i \in DOMAIN last.result.val :
                    ReturnedFor(r, last.result.val[i], clock)

\* C18 witness: list_all returned a record whose text does not parse with the
\* current time and a record whose text parses with its own, earlier time
C18_Witness ==
    /\ last.op = "get_all" /\ last.result.ok
    /\ \E r, q \in store :
          /\ r.created_at = Unparseable
          /\ q.created_at = TimeToString(0)
          /\ clock = 1
          /\ \E i, j \in DOMAIN last.result.val :
                /\ last.result.val[i].id = r.id
                /\ last.result.val[i].created_at = 1
                /\ last.result.val[j].id = q.id
                /\ last.result.val[j].created_at = 0

DuplicatePath == \E p \in Paths : Cardinality(Matching(store, p)) > 1

C15_LostUpdateReached ==
    /\ hist.lost
    /\ \E p \in Procs :
          /\ procs[p].pc = "done"
          /\ procs[p].result.ok
          /\ procs[p].result.val.id \notin Ids(store)

InCalls(name) == \E i \in DOMAIN last.calls : last.calls[i] = name

\* C19: each of add, clean, list, show and delete, once the schema is
\* ensured, runs to its end and calls its repository operation: add inserts
\* once per target, clean calls delete_all or delete_by_path, list calls
\* list_all, show a read, delete looks each target up and deletes the ones
\* found; any other command makes no call and leaves the database alone.
C19_CommandDispatch ==
    [][last'.op = "main" =>
         LET calls == last'.calls
             Called(name) == \E i \in DOMAIN calls : calls[i] = name
             Count(name) == Cardinality({i \in DOMAIN calls : calls[i] = name})
         IN  IF last'.cmd \in COMMANDS
             THEN (calls[1] = "prep_db" /\ ~last'.prepFails) =>
                    /\ last'.completed
                    /\ last'.cmd = "add" =>
                           Count("insert_into_db") = Len(last'.targets)
                    /\ last'.cmd = "clean" =>
                           Called("delete_all") \/ Called("delete_entry")
                    /\ last'.cmd = "list" => Called("get_all")
                    /\ last'.cmd = "show" =>
                           Called("does_exist") \/ Called("get_all")
                    /\ last'.cmd = "delete" =>
                           Count("does_exist") = Len(last'.targets)
             ELSE /\ calls = <<>>
                  /\ schema' = schema /\ store' = store /\ seq' = seq]_vars

\* C20: find_by_path and list_all, and the show and list commands, leave
\* the table as it is: the same rows with the same ids, and the same next id.
C20_ReadsArePure ==
    [][(\/ last'.op \in {"does_exist", "get_all"}
        \/ last'.op = "main" /\ last'.cmd \in {"show", "list"})
        => /\ store' = store
           /\ seq' = seq
           /\ written' = written
           /\ NextRowId(store', seq') = NextRowId(store, seq)]_vars

\* C20 witness: a show command ran on a table that holds a record for its
\* target
C20_Witness ==
    /\ last.op = "main" /\ last.cmd = "show" /\ last.completed
    /\ InCalls("does_exist")
    /\ Matching(store, last.targets[1]) # {}

====
